---- MODULE Spec2Model ----
(***************************************************************************)
(* The retrieval core of utils/rag_processor.py: the RAGProcessor instance *)
(* at work (index, metadata), the snapshot pair on disk                    *)
(* (data/vector_index.faiss, data/vector_metadata.pkl) and the operations  *)
(* build_vector_database, _save_index, load_index, semantic_search and     *)
(* find_relevant_news (Spec); _chunk_text, extract_keywords and the        *)
(* records of a first build on inputs of their own (TextSpec); the batch  *)
(* functions process_client_data_with_rag and, of                          *)
(* utils/openai_ad_generator.py, generate_complete_campaign (RagSpec); and *)
(* main of utils/main_pipeline.py (PipelineSpec).                          *)
(* Every script constructs its own RAGProcessor over the same data/        *)
(* directory, so constructing a new instance replaces the one at work.     *)
(*                                                                         *)
(* Strings are sequences of tokens: a token is a word or a single space.   *)
(* Vectors are integer sequences; a normalised vector is kept in fixed     *)
(* point with Unit standing for 1.0, so a score is scaled by Unit * Unit.  *)
(* Python's None is the record field none = TRUE (index) and an attribute  *)
(* that was never assigned is set = FALSE (metadata).                      *)
(***************************************************************************)
EXTENDS Integers, Sequences, FiniteSets, TLC

VARIABLES index, metadata, vector_file, metadata_file, built, builder, ret

vars == <<index, metadata, vector_file, metadata_file, built, builder, ret>>

\* ---------------------------------------------------------------- bounds
\* Largest k handed to semantic_search.
MaxK == 2
\* Width of an embedding (384 in the deployment, self.dimension).
dimension == 2

\* ---------------------------------------------------------------- strings
SP == " "

\* A word long enough that two of them do not fit one 512-character chunk.
LongWord == "xxxxxxxxxxxxxxxxxxxxxxxxxxxxxxxxxxxxxxxxxxxxxxxxxxxxxxxxxxxxxxxxxxxxxxxxxxxxxxxxxxxxxxxxxxxxxxxxxxxxxxxxxxxxxxxxxxxxxxxxxxxxxxxxxxxxxxxxxxxxxxxxxxxxxxxxxxxxxxxxxxxxxxxxxxxxxxxxxxxxxxxxxxxxxxxxxxxxxxxxxxxxxxxxxxxxxxxxxxxxxxxxxxxxxxxxxxxxxxxxxxxxxxxxxxxxxxxx"

\* s.split(): the words of s, whitespace dropped.
split(s) == SelectSeq(s, LAMBDA t : t # SP)

\* ' '.join(words)
join(words) == [i \in 1..(2 * Len(words) - 1) |-> IF i % 2 = 1 THEN words[(i + 1) \div 2] ELSE SP]

\* ' '.join(strings) of a list of strings.
RECURSIVE join_strings(_)
join_strings(strings) ==
    IF strings = <<>> THEN <<>>
    ELSE IF Len(strings) = 1 THEN Head(strings)
    ELSE Head(strings) \o <<SP>> \o join_strings(Tail(strings))

\* s[:n]: the first n characters of a token string.
RECURSIVE py_prefix(_, _)
py_prefix(s, n) ==
    IF s = <<>> \/ n <= 0 THEN <<>>
    ELSE IF Len(Head(s)) <= n
    THEN <<Head(s)>> \o py_prefix(Tail(s), n - Len(Head(s)))
    ELSE <<SubSeq(Head(s), 1, n)>>

\* len(s) of a token string, in characters.
RECURSIVE strlen(_)
strlen(s) == IF s = <<>> THEN 0 ELSE Len(Head(s)) + strlen(Tail(s))

\* ---------------------------------------------------------------- chunking
\* chunks = [], current_chunk = [], current_length = 0
ChunkState0 == [chunks |-> <<>>, current_chunk |-> <<>>, current_length |-> 0]

\* chunk_step that starts the next chunk empty: the word that did not fit
\* is dropped.
chunk_step_drop(st, word, max_length) ==
    IF st.current_length + Len(word) + 1 <= max_length
    THEN [st EXCEPT !.current_chunk = Append(st.current_chunk, word),
                    !.current_length = st.current_length + Len(word) + 1]
    ELSE [chunks |-> IF st.current_chunk # <<>>
                     THEN Append(st.chunks, join(st.current_chunk)) ELSE st.chunks,
          current_chunk |-> <<>>,
          current_length |-> 0]

\* chunk_step that starts the next chunk with current_length 0.
chunk_step_zero(st, word, max_length) ==
    IF st.current_length + Len(word) + 1 <= max_length
    THEN [st EXCEPT !.current_chunk = Append(st.current_chunk, word),
                    !.current_length = st.current_length + Len(word) + 1]
    ELSE [chunks |-> IF st.current_chunk # <<>>
                     THEN Append(st.chunks, join(st.current_chunk)) ELSE st.chunks,
          current_chunk |-> <<word>>,
          current_length |-> 0]

\* chunk_step whose budget counts words, not characters.
chunk_step_words(st, word, max_length) ==
    IF Len(st.current_chunk) + 1 <= max_length
    THEN [st EXCEPT !.current_chunk = Append(st.current_chunk, word),
                    !.current_length = st.current_length + Len(word) + 1]
    ELSE [chunks |-> IF st.current_chunk # <<>>
                     THEN Append(st.chunks, join(st.current_chunk)) ELSE st.chunks,
          current_chunk |-> <<word>>,
          current_length |-> Len(word)]

\* chunk_step that takes a word only while the count stays below max_length.
chunk_step_strict(st, word, max_length) ==
    IF st.current_length + Len(word) + 1 < max_length
    THEN [st EXCEPT !.current_chunk = Append(st.current_chunk, word),
                    !.current_length = st.current_length + Len(word) + 1]
    ELSE [chunks |-> IF st.current_chunk # <<>>
                     THEN Append(st.chunks, join(st.current_chunk)) ELSE st.chunks,
          current_chunk |-> <<word>>,
          current_length |-> Len(word)]

\* The body of the loop of _chunk_text for one word.
chunk_step(st, word, max_length) ==
    IF st.current_length + Len(word) + 1 <= max_length
    THEN [st EXCEPT !.current_chunk = Append(st.current_chunk, word),
                    !.current_length = st.current_length + Len(word) + 1]
    ELSE [chunks |-> IF st.current_chunk # <<>>
                     THEN Append(st.chunks, join(st.current_chunk)) ELSE st.chunks,
          current_chunk |-> <<word>>,
          current_length |-> Len(word)]

\* for word in words: chunk_step word by word, from the state st. The list
\* is taken in two halves, the state after the first half (mid) evaluated
\* before the second half is entered; its current_length is never negative.
RECURSIVE chunk_loop(_, _, _)
chunk_loop(words, st, max_length) ==
    IF words = <<>> THEN st
    ELSE IF Len(words) = 1 THEN chunk_step(st, words[1], max_length)
    ELSE LET half == Len(words) \div 2
             mid  == chunk_loop(SubSeq(words, 1, half), st, max_length)
         IN IF mid.current_length >= 0
            THEN chunk_loop(SubSeq(words, half + 1, Len(words)), mid, max_length)
            ELSE mid

chunk_text(text, max_length) ==
    LET st == chunk_loop(split(text), ChunkState0, max_length)
    IN IF st.current_chunk # <<>>
       THEN Append(st.chunks, join(st.current_chunk)) ELSE st.chunks

\* The max_length build_vector_database passes to _chunk_text.
ChunkBudget == 512

\* ---------------------------------------------------------------- keywords
\* word.lower() for the words the texts below are made of.
lower(word) ==
    CASE word = "The"   -> "the"
      [] word = "Quick" -> "quick"
      [] OTHER          -> word

\* stop_words of the fallback taken when self.rake is None.
stop_words_no_rake ==
    {"the", "a", "an", "and", "or", "but", "in", "on", "at", "to", "for", "of",
     "with", "by", "is", "are", "was", "were", "be", "been", "have", "has", "had",
     "do", "does", "did", "will", "would", "could", "should", "may", "might",
     "can", "this", "that", "these", "those", "i", "you", "he", "she", "it", "we",
     "they", "me", "him", "her", "us", "them"}

\* stop_words of the fallback taken when RAKE raises.
stop_words_except ==
    {"the", "a", "an", "and", "or", "but", "in", "on", "at", "to", "for", "of",
     "with", "by"}

\* keywords[:max_keywords]
py_slice_to(list, n) ==
    IF n >= 0 THEN SubSeq(list, 1, IF n <= Len(list) THEN n ELSE Len(list))
    ELSE SubSeq(list, 1, Len(list) + n)

\* text.lower().split()
lower_split(text) == LET words == split(text) IN [i \in 1..Len(words) |-> lower(words[i])]

\* simple_keywords that keeps the words of 3 characters too.
simple_keywords_len3(text, stop_words, max_keywords) ==
    LET keywords == SelectSeq(lower_split(text),
                              LAMBDA word : Len(word) >= 3 /\ word \notin stop_words)
    IN py_slice_to([i \in 1..Len(keywords) |-> <<keywords[i]>>], max_keywords)

\* The fallback of extract_keywords: the lowercased words longer than 3
\* characters and not in stop_words, cut to max_keywords; a keyword is a
\* string of one word.
simple_keywords(text, stop_words, max_keywords) ==
    LET keywords == SelectSeq(lower_split(text),
                              LAMBDA word : Len(word) > 3 /\ word \notin stop_words)
    IN py_slice_to([i \in 1..Len(keywords) |-> <<keywords[i]>>], max_keywords)

\* The candidate phrases of RAKE: the longest runs of words that are not
\* stopwords, in text order (the NLTK stopword list stands as
\* stop_words_no_rake).
RECURSIVE rake_phrases(_, _)
rake_phrases(words, phrase) ==
    IF words = <<>> THEN (IF phrase = <<>> THEN <<>> ELSE <<join(phrase)>>)
    ELSE IF Head(words) \in stop_words_no_rake
    THEN (IF phrase = <<>> THEN <<>> ELSE <<join(phrase)>>) \o rake_phrases(Tail(words), <<>>)
    ELSE rake_phrases(Tail(words), Append(phrase, Head(words)))

\* The phrases of at most n tokens, longest first.
RECURSIVE longest_first(_, _)
longest_first(phrases, n) ==
    IF n <= 0 THEN <<>>
    ELSE SelectSeq(phrases, LAMBDA p : Len(p) = n) \o longest_first(phrases, n - 1)

\* rake.extract_keywords_from_text(text); rake.get_ranked_phrases(): the
\* phrases ranked by score, which grows with the words of a phrase.
get_ranked_phrases(text) ==
    LET words == lower_split(text)
    IN longest_first(rake_phrases(words, <<>>), 2 * Len(words))

\* What self.rake can be: None (Rake() raised in __init__), a Rake whose
\* NLTK data is complete, or a Rake whose calls raise for missing data.
RakeStates == {"none", "ready", "failing"}

\* extract_keywords without the try: what RAKE raises reaches the caller.
extract_keywords_no_except(rake, text, max_keywords) ==
    IF rake = "none"
    THEN [exc |-> "", keywords |-> simple_keywords(text, stop_words_no_rake, max_keywords)]
    ELSE IF rake = "ready"
    THEN [exc |-> "", keywords |-> py_slice_to(get_ranked_phrases(text), max_keywords)]
    ELSE [exc |-> "LookupError", keywords |-> <<>>]

\* extract_keywords(text, max_keywords) on an instance whose self.rake is rake.
extract_keywords(rake, text, max_keywords) ==
    IF rake = "none"
    THEN [exc |-> "", keywords |-> simple_keywords(text, stop_words_no_rake, max_keywords)]
    ELSE IF rake = "ready"
    THEN [exc |-> "", keywords |-> py_slice_to(get_ranked_phrases(text), max_keywords)]
    ELSE [exc |-> "", keywords |-> simple_keywords(text, stop_words_except, max_keywords)]

\* ---------------------------------------------------------------- vectors
\* 1.0 in the fixed-point form of a float32 component.
Unit == 5

\* The first two components the embedding model gives a text that starts
\* with this word; every table entry has an integer L2 norm.
WordVec(w) ==
    CASE w = LongWord -> <<0, 5>>
      [] w = "rates"  -> <<3, 4>>
      [] w = "fund"   -> <<4, 3>>
      [] OTHER        -> <<5, 0>>

\* self.model.encode(text): a deterministic vector of width dimension whose
\* length grows with the text, so that raw embeddings are not unit vectors.
get_embedding(text) ==
    LET ws == split(text)
        v  == IF ws = <<>> THEN <<1, 0>> ELSE WordVec(ws[1])
        n  == IF ws = <<>> THEN 1 ELSE Len(ws)
    IN [i \in 1..dimension |-> IF i <= 2 THEN n * v[i] ELSE 0]

RECURSIVE dot(_, _)
dot(a, b) == IF a = <<>> THEN 0 ELSE Head(a) * Head(b) + dot(Tail(a), Tail(b))

\* Integer square root.
isqrt(n) == CHOOSE r \in 0..n : r * r <= n /\ (r + 1) * (r + 1) > n

\* faiss.normalize_L2 on one row: scaled to unit norm, a zero row left alone.
normalize_L2(v) ==
    LET nr == isqrt(dot(v, v)) IN
    IF nr = 0 THEN v ELSE [i \in 1..Len(v) |-> (v[i] * Unit) \div nr]

\* ---------------------------------------------------------------- the index
\* self.index = None
NoIndex == [none |-> TRUE, xb |-> <<>>]

\* faiss.IndexFlatIP(self.dimension): an index holding no vector.
IndexFlatIP == [none |-> FALSE, xb |-> <<>>]

\* index.add(rows)
index_add(ix, rows) == [ix EXCEPT !.xb = ix.xb \o rows]

\* The score faiss reports beside the id -1 of a missing neighbour.
NegInf == 0 - (Unit * Unit) - 1

\* top_n that hands the rows back worst first.
RECURSIVE top_n_worst_first(_, _, _, _)
top_n_worst_first(xb, q, left, n) ==
    IF n = 0 THEN <<>>
    ELSE IF left = {} THEN <<[score |-> NegInf, idx |-> -1]>>
                           \o top_n_worst_first(xb, q, left, n - 1)
    ELSE LET worst == CHOOSE i \in left : \A j \in left :
                        \/ dot(xb[i], q) < dot(xb[j], q)
                        \/ dot(xb[i], q) = dot(xb[j], q) /\ i <= j
         IN <<[score |-> dot(xb[worst], q), idx |-> worst - 1]>>
            \o top_n_worst_first(xb, q, left \ {worst}, n - 1)

\* index.search(q, n): the n best rows by inner product, best first, equal
\* scores in insertion order, padded with id -1 when the index is smaller.
RECURSIVE top_n(_, _, _, _)
top_n(xb, q, left, n) ==
    IF n = 0 THEN <<>>
    ELSE IF left = {} THEN <<[score |-> NegInf, idx |-> -1]>> \o top_n(xb, q, left, n - 1)
    ELSE LET best == CHOOSE i \in left : \A j \in left :
                        \/ dot(xb[i], q) > dot(xb[j], q)
                        \/ dot(xb[i], q) = dot(xb[j], q) /\ i <= j
         IN <<[score |-> dot(xb[best], q), idx |-> best - 1]>>
            \o top_n(xb, q, left \ {best}, n - 1)

index_search(ix, q, n) == top_n(ix.xb, q, 1..Len(ix.xb), n)

\* ---------------------------------------------------------------- the snapshot files
\* A file of data/: absent, present and readable, or present and damaged.
NoFile == [exists |-> FALSE, readable |-> FALSE]
BadFile == [exists |-> TRUE, readable |-> FALSE]
GoodFile == [exists |-> TRUE, readable |-> TRUE]

RECURSIVE flatten(_)
flatten(rows) == IF rows = <<>> THEN <<>> ELSE Head(rows) \o flatten(Tail(rows))

\* faiss.write_index: the width, the row count, then the rows end to end.
write_index(ix) == <<dimension, Len(ix.xb)>> \o flatten(ix.xb)

\* read_index with the header taken to be one number long.
read_index_shifted(data) ==
    LET d == data[1]
        n == data[2]
    IN [none |-> FALSE,
        xb |-> [i \in 1..n |-> [j \in 1..d |-> data[1 + (i - 1) * d + j]]]]

\* faiss.read_index: the rows cut back out of the flat data.
read_index(data) ==
    LET d == data[1]
        n == data[2]
    IN [none |-> FALSE,
        xb |-> [i \in 1..n |-> [j \in 1..d |-> data[2 + (i - 1) * d + j]]]]

\* pickle.dump of the metadata list: its length, then its items.
pickle_dump(recs) == [n |-> Len(recs), items |-> recs]

\* pickle.load
pickle_load(data) == SubSeq(data.items, 1, data.n)

\* The places where _save_index can fail, and "none".
SaveFaults == {"makedirs", "write_index", "open", "pickle_dump"}

\* _save_index. vf and mf are <<file, data>> pairs. A failing write_index
\* or pickle.dump has already truncated the file it was writing.
save_index(ix, md, vf, mf, fault) ==
    IF fault = "makedirs"
    THEN [vector_file |-> vf, metadata_file |-> mf, exc |-> "OSError"]
    ELSE IF fault = "write_index"
    THEN [vector_file |-> [file |-> BadFile, data |-> <<>>],
          metadata_file |-> mf, exc |-> "RuntimeError"]
    ELSE LET written == [file |-> GoodFile, data |-> write_index(ix)] IN
         IF fault = "open"
         THEN [vector_file |-> written, metadata_file |-> mf, exc |-> "OSError"]
         ELSE IF fault = "pickle_dump"
         THEN [vector_file |-> written,
               metadata_file |-> [file |-> BadFile, data |-> pickle_dump(<<>>)],
               exc |-> "OSError"]
         ELSE [vector_file |-> written,
               metadata_file |-> [file |-> GoodFile, data |-> pickle_dump(md.recs)],
               exc |-> ""]

\* ---------------------------------------------------------------- build
\* The landing_page records of one client: one per chunk, none when the
\* landing-page content is empty or missing.
landing_records(client) ==
    IF client.landing_page_content = <<>> THEN <<>>
    ELSE LET chunks == chunk_text(client.landing_page_content, ChunkBudget)
         IN [i \in 1..Len(chunks) |->
                [type |-> "landing_page",
                 client_name |-> client.client_name,
                 url |-> client.url,
                 chunk_id |-> i - 1,
                 content |-> chunks[i]]]

\* The news_article records of one client, embedded from title plus source.
news_records(client) ==
    [i \in 1..Len(client.news_articles) |->
        LET article == client.news_articles[i] IN
        [type |-> "news_article",
         client_name |-> client.client_name,
         title |-> article.title,
         source |-> article.source,
         published_date |-> article.published_date,
         url |-> article.url,
         content |-> article.title \o <<SP>> \o article.source]]

RECURSIVE all_landing(_)
all_landing(client_data) ==
    IF client_data = <<>> THEN <<>>
    ELSE landing_records(Head(client_data)) \o all_landing(Tail(client_data))

RECURSIVE all_news(_)
all_news(client_data) ==
    IF client_data = <<>> THEN <<>>
    ELSE news_records(Head(client_data)) \o all_news(Tail(client_data))

\* build_metadata with one loop over the clients: the news_article records
\* of a client follow its landing_page records.
RECURSIVE build_metadata_by_client(_)
build_metadata_by_client(client_data) ==
    IF client_data = <<>> THEN <<>>
    ELSE landing_records(Head(client_data)) \o news_records(Head(client_data))
         \o build_metadata_by_client(Tail(client_data))

\* The metadata list the two loops of build_vector_database collect.
build_metadata(client_data) == all_landing(client_data) \o all_news(client_data)

\* The embeddings list collected beside it, one per record.
build_embeddings(recs) == [i \in 1..Len(recs) |-> get_embedding(recs[i].content)]

\* embeddings_array of two axes whatever the list, as a reshape to
\* (-1, dimension) would give.
embeddings_array_2d(embeddings) == [ndim |-> 2, rows |-> embeddings]

\* np.array(embeddings).astype('float32'): an empty list gives an array of
\* one axis, any other list one row per embedding.
embeddings_array(embeddings) ==
    [ndim |-> IF embeddings = <<>> THEN 1 ELSE 2, rows |-> embeddings]

\* normalize_rows that leaves the rows as the model produced them.
normalize_rows_skip(rows) == rows

\* faiss.normalize_L2(embeddings_array), in place.
normalize_rows(rows) == [i \in 1..Len(rows) |-> normalize_L2(rows[i])]

\* new_index that keeps the index the instance already holds.
keep_index(ix) == IF ix.none THEN IndexFlatIP ELSE ix

\* self.index = faiss.IndexFlatIP(self.dimension): the index the instance
\* held (ix) is dropped.
new_index(ix) == IndexFlatIP

\* build_vector_database(client_data) on an instance holding ix and md, with
\* the snapshot files vf and mf; fault names the step that fails, if any.
build_vector_database(ix, md, vf, mf, client_data, fault) ==
    LET recs == build_metadata(client_data)
        embeddings == build_embeddings(recs)
        arr == embeddings_array(embeddings)
    IN IF fault = "get_embedding" /\ recs # <<>>
       THEN [index |-> ix, metadata |-> md, vector_file |-> vf,
             metadata_file |-> mf, exc |-> "EmbeddingError"]
       ELSE IF arr.ndim # 2
       \* normalize_L2 and add read x.shape[1], which an array of one axis
       \* lacks; self.index was assigned before.
       THEN [index |-> new_index(ix), metadata |-> md, vector_file |-> vf,
             metadata_file |-> mf, exc |-> "IndexError"]
       ELSE LET newix == index_add(new_index(ix), normalize_rows(arr.rows))
                newmd == [set |-> TRUE, recs |-> recs]
                saved == save_index(newix, newmd, vf, mf, fault)
            IN [index |-> newix, metadata |-> newmd,
                vector_file |-> saved.vector_file,
                metadata_file |-> saved.metadata_file, exc |-> saved.exc]

\* ---------------------------------------------------------------- load
\* load_index that tests the two files with "or": the vector file is read
\* before the metadata file is found missing.
load_index_either(ix, md, vf, mf) ==
    IF vf.file.exists \/ mf.file.exists
    THEN IF ~vf.file.exists
         THEN [index |-> ix, metadata |-> md, returned |-> FALSE,
               exc |-> "RuntimeError", read |-> {}]
         ELSE IF ~vf.file.readable
         THEN [index |-> ix, metadata |-> md, returned |-> FALSE,
               exc |-> "RuntimeError", read |-> {"vector_index.faiss"}]
         ELSE IF ~mf.file.exists
         THEN [index |-> read_index(vf.data), metadata |-> md, returned |-> FALSE,
               exc |-> "FileNotFoundError", read |-> {"vector_index.faiss"}]
         ELSE IF ~mf.file.readable
         THEN [index |-> read_index(vf.data), metadata |-> md, returned |-> FALSE,
               exc |-> "UnpicklingError",
               read |-> {"vector_index.faiss", "vector_metadata.pkl"}]
         ELSE [index |-> read_index(vf.data),
               metadata |-> [set |-> TRUE, recs |-> pickle_load(mf.data)],
               returned |-> TRUE, exc |-> "",
               read |-> {"vector_index.faiss", "vector_metadata.pkl"}]
    ELSE [index |-> ix, metadata |-> md, returned |-> FALSE, exc |-> "", read |-> {}]

\* load_index() on an instance holding ix and md. read names the files read.
load_index(ix, md, vf, mf) ==
    IF vf.file.exists /\ mf.file.exists
    THEN IF ~vf.file.readable
         THEN [index |-> ix, metadata |-> md, returned |-> FALSE,
               exc |-> "RuntimeError", read |-> {"vector_index.faiss"}]
         ELSE IF ~mf.file.readable
         THEN [index |-> read_index(vf.data), metadata |-> md, returned |-> FALSE,
               exc |-> "UnpicklingError",
               read |-> {"vector_index.faiss", "vector_metadata.pkl"}]
         ELSE [index |-> read_index(vf.data),
               metadata |-> [set |-> TRUE, recs |-> pickle_load(mf.data)],
               returned |-> TRUE, exc |-> "",
               read |-> {"vector_index.faiss", "vector_metadata.pkl"}]
    ELSE [index |-> ix, metadata |-> md, returned |-> FALSE, exc |-> "", read |-> {}]

\* ---------------------------------------------------------------- search
\* filter_type=None
None == "<None>"

\* Python truth of filter_type: None and the empty string are false.
truthy(filter_type) == filter_type # None /\ filter_type # ""

\* search_loop without the break at k results.
RECURSIVE search_loop_no_break(_, _, _, _, _)
search_loop_no_break(cands, results, md, k, filter_type) ==
    IF cands = <<>> THEN [exc |-> "", results |-> results]
    ELSE LET c == Head(cands) IN
         IF c.idx = -1 THEN search_loop_no_break(Tail(cands), results, md, k, filter_type)
         ELSE IF ~md.set THEN [exc |-> "AttributeError", results |-> <<>>]
         ELSE IF c.idx + 1 > Len(md.recs) THEN [exc |-> "IndexError", results |-> <<>>]
         ELSE LET rec == md.recs[c.idx + 1] IN
              IF truthy(filter_type) /\ rec.type # filter_type
              THEN search_loop_no_break(Tail(cands), results, md, k, filter_type)
              ELSE search_loop_no_break(Tail(cands),
                       Append(results, rec @@ [similarity_score |-> c.score]),
                       md, k, filter_type)

\* The loop of semantic_search over the (score, idx) pairs faiss returned.
RECURSIVE search_loop(_, _, _, _, _)
search_loop(cands, results, md, k, filter_type) ==
    IF cands = <<>> THEN [exc |-> "", results |-> results]
    ELSE LET c == Head(cands) IN
         IF c.idx = -1 THEN search_loop(Tail(cands), results, md, k, filter_type)
         ELSE IF ~md.set THEN [exc |-> "AttributeError", results |-> <<>>]
         ELSE IF c.idx + 1 > Len(md.recs) THEN [exc |-> "IndexError", results |-> <<>>]
         ELSE LET rec == md.recs[c.idx + 1] IN
              IF truthy(filter_type) /\ rec.type # filter_type
              THEN search_loop(Tail(cands), results, md, k, filter_type)
              ELSE LET more == Append(results, rec @@ [similarity_score |-> c.score]) IN
                   IF Len(more) >= k THEN [exc |-> "", results |-> more]
                   ELSE search_loop(Tail(cands), more, md, k, filter_type)

\* semantic_search asking faiss for k neighbours, not k * 2.
semantic_search_no_overfetch(ix, md, query, k, filter_type) ==
    IF ix.none THEN [exc |-> "ValueError", results |-> <<>>]
    ELSE LET query_embedding == normalize_L2(get_embedding(query))
         IN search_loop(index_search(ix, query_embedding, k), <<>>, md, k, filter_type)

\* semantic_search asking faiss for k * 3 neighbours.
semantic_search_overfetch3(ix, md, query, k, filter_type) ==
    IF ix.none THEN [exc |-> "ValueError", results |-> <<>>]
    ELSE LET query_embedding == normalize_L2(get_embedding(query))
         IN search_loop(index_search(ix, query_embedding, k * 3), <<>>, md, k, filter_type)

\* semantic_search asking faiss for every row of the index, so that the
\* loop goes on until k records pass the filter.
semantic_search_all_rows(ix, md, query, k, filter_type) ==
    IF ix.none THEN [exc |-> "ValueError", results |-> <<>>]
    ELSE LET query_embedding == normalize_L2(get_embedding(query))
         IN search_loop(index_search(ix, query_embedding, Len(ix.xb) + k * 2),
                        <<>>, md, k, filter_type)

\* semantic_search(query, k, filter_type) on an instance holding ix and md.
semantic_search(ix, md, query, k, filter_type) ==
    IF ix.none THEN [exc |-> "ValueError", results |-> <<>>]
    ELSE LET query_embedding == normalize_L2(get_embedding(query))
         IN search_loop(index_search(ix, query_embedding, k * 2), <<>>, md, k, filter_type)

\* find_relevant_news that keeps the records of the named client only.
find_relevant_news_own_client(ix, md, rake, client_name, landing_page_content, k) ==
    LET keywords == extract_keywords(rake, landing_page_content, 10).keywords
        query == py_prefix(landing_page_content, 500) \o <<SP>> \o join_strings(keywords)
        out == semantic_search(ix, md, query, k, "news_article")
    IN [exc |-> out.exc,
        results |-> SelectSeq(out.results, LAMBDA rec : rec.client_name = client_name),
        query |-> query]

\* find_relevant_news(client_name, landing_page_content, k) on an instance
\* holding ix and md, whose self.rake is rake.
find_relevant_news(ix, md, rake, client_name, landing_page_content, k) ==
    LET keywords == extract_keywords(rake, landing_page_content, 10).keywords
        query == py_prefix(landing_page_content, 500) \o <<SP>> \o join_strings(keywords)
    IN semantic_search(ix, md, query, k, "news_article") @@ [query |-> query]

\* ---------------------------------------------------------------- inputs
Article(title, source) ==
    [title |-> title, source |-> source, published_date |-> "2024-01-01", url |-> "news"]

\* Acme: a landing page of two chunks and one article.
Acme == [client_name |-> "Acme", url |-> "acme",
         landing_page_content |-> <<LongWord, SP, LongWord>>,
         news_articles |-> <<Article(<<"rates">>, <<"bank">>)>>]

\* Beta: no landing-page content (scraping failed), one article without source.
Beta == [client_name |-> "Beta", url |-> "beta",
         landing_page_content |-> <<>>,
         news_articles |-> <<Article(<<"fund">>, <<>>)>>]

\* Gamma: whitespace for landing-page content and no article.
Gamma == [client_name |-> "Gamma", url |-> "gamma",
          landing_page_content |-> <<SP>>,
          news_articles |-> <<>>]

\* Delta: a landing page of one chunk and two articles, the first with an
\* empty title and no source.
Delta == [client_name |-> "Delta", url |-> "delta",
          landing_page_content |-> <<"fund">>,
          news_articles |-> <<Article(<<>>, <<>>), Article(<<"rates">>, <<"bank">>)>>]

ClientLists == {<<>>, <<Gamma>>, <<Acme>>, <<Gamma, Beta>>}

Queries == {<<LongWord>>, <<"rates">>}

\* The landing pages find_relevant_news is called with.
LandingPages == {Acme.landing_page_content, Delta.landing_page_content}

\* The client names find_relevant_news is called with.
ClientNames == {Acme.client_name, Delta.client_name}

FilterTypes == {None, "", "landing_page", "news_article"}

BuildFaults == {"none", "get_embedding"} \cup SaveFaults

\* ---------------------------------------------------------------- state
\* index, metadata: the attributes of the RAGProcessor at work.
\* vector_file, metadata_file: data/vector_index.faiss, data/vector_metadata.pkl.
\* ret: the outcome of the last call: the operation, its arguments, the
\*   exception it raised ("" for none) and what it returned; fresh says the
\*   instance held neither index nor metadata when load_index was called,
\*   was_built is built as build_vector_database found it.
\* built: a build or a load has completed on this instance without raising
\*   (a load: returning True).
\* builder: what the instance whose build last completed held at that
\*   moment; saved says the snapshot pair on disk is still the one it saved.
NoMetadata == [set |-> FALSE, recs |-> <<>>]

NoCall ==
    [op |-> "none", exc |-> "", returned |-> FALSE, results |-> <<>>, read |-> {},
     fresh |-> FALSE, was_built |-> FALSE, client_data |-> <<>>, query |-> <<>>, k |-> 0,
     filter_type |-> None]

NoBuilder == [saved |-> FALSE, index |-> NoIndex, metadata |-> NoMetadata]

Init ==
    /\ index = NoIndex
    /\ metadata = NoMetadata
    /\ vector_file = [file |-> NoFile, data |-> <<>>]
    /\ metadata_file = [file |-> NoFile, data |-> pickle_dump(<<>>)]
    /\ built = FALSE
    /\ builder = NoBuilder
    /\ ret = NoCall

\* RAGProcessor(): a new instance replaces the one at work.
New ==
    /\ index' = NoIndex
    /\ metadata' = NoMetadata
    /\ built' = FALSE
    /\ ret' = [NoCall EXCEPT !.op = "__init__"]
    /\ UNCHANGED <<vector_file, metadata_file, builder>>

\* build_vector_database(client_data); fault names the step that fails.
Build(client_data, fault) ==
    LET out == build_vector_database(index, metadata, vector_file,
                                     metadata_file, client_data, fault)
    IN /\ fault # "none" => build_metadata(client_data) # <<>>
       /\ index' = out.index
       /\ metadata' = out.metadata
       /\ vector_file' = out.vector_file
       /\ metadata_file' = out.metadata_file
       /\ built' = (built \/ out.exc = "")
       /\ builder' = IF out.exc = ""
                     THEN [saved |-> TRUE, index |-> out.index, metadata |-> out.metadata]
                     ELSE [builder EXCEPT !.saved =
                              /\ builder.saved
                              /\ out.vector_file = vector_file
                              /\ out.metadata_file = metadata_file]
       /\ ret' = [NoCall EXCEPT !.op = "build_vector_database", !.exc = out.exc,
                                !.client_data = client_data, !.was_built = built]

\* load_index()
Load ==
    LET out == load_index(index, metadata, vector_file, metadata_file)
    IN /\ index' = out.index
       /\ metadata' = out.metadata
       /\ built' = (built \/ out.returned)
       /\ ret' = [NoCall EXCEPT !.op = "load_index", !.exc = out.exc,
                                !.returned = out.returned, !.read = out.read,
                                !.fresh = (index.none /\ ~metadata.set)]
       /\ UNCHANGED <<vector_file, metadata_file, builder>>

\* semantic_search(query, k, filter_type)
Search(query, k, filter_type) ==
    LET out == semantic_search(index, metadata, query, k, filter_type)
    IN /\ ret' = [NoCall EXCEPT !.op = "semantic_search", !.exc = out.exc,
                                !.results = out.results, !.query = query, !.k = k,
                                !.filter_type = filter_type]
       /\ UNCHANGED <<index, metadata, vector_file, metadata_file, built, builder>>

\* find_relevant_news(client_name, landing_page_content, k); rake is what
\* self.rake holds and how its calls fare, settled outside the model.
FindRelevantNews(rake, client_name, landing_page_content, k) ==
    LET out == find_relevant_news(index, metadata, rake, client_name,
                                  landing_page_content, k)
    IN /\ ret' = [rake |-> rake, client_name |-> client_name,
                  landing_page_content |-> landing_page_content]
                 @@ [NoCall EXCEPT !.op = "find_relevant_news", !.exc = out.exc,
                                   !.results = out.results, !.query = out.query, !.k = k,
                                   !.filter_type = "news_article"]
       /\ UNCHANGED <<index, metadata, vector_file, metadata_file, built, builder>>

Next ==
    \/ New
    \/ \E client_data \in ClientLists, fault \in BuildFaults : Build(client_data, fault)
    \/ Load
    \/ \E query \in Queries, k \in 1..MaxK, filter_type \in FilterTypes :
           Search(query, k, filter_type)
    \/ \E rake \in RakeStates, client \in {Acme, Delta}, k \in 1..MaxK :
           FindRelevantNews(rake, client.client_name, client.landing_page_content, k)

Spec == Init /\ [][Next]_vars

\* ---------------------------------------------------------------- the text functions
\* TextSpec makes one call on a RAGProcessor just constructed, with inputs
\* drawn from bounded sets: _chunk_text and extract_keywords, which read no
\* attribute but self.rake, and the first build_vector_database, for the
\* records it makes of its client list. ret holds the call and its result.

\* Longest text, in tokens, handed to _chunk_text.
MaxTokens == 4
\* Largest max_length handed to _chunk_text.
MaxLength == 6

ChunkTokens == {"a", "bb", "dddd", SP}

ChunkTexts == UNION {[1..n -> ChunkTokens] : n \in 0..MaxTokens}

\* _chunk_text(text, max_length)
ChunkText(text, max_length) ==
    /\ ret.op = "none"
    /\ ret' = [op |-> "_chunk_text", text |-> text, max_length |-> max_length,
               chunks |-> chunk_text(text, max_length)]
    /\ UNCHANGED <<index, metadata, vector_file, metadata_file, built, builder>>

\* extract_keywords(text, max_keywords)
ExtractKeywords(rake, text, max_keywords) ==
    LET out == extract_keywords(rake, text, max_keywords)
    IN /\ ret.op = "none"
       /\ ret' = [op |-> "extract_keywords", rake |-> rake, text |-> text,
                  max_keywords |-> max_keywords, exc |-> out.exc,
                  keywords |-> out.keywords]
       /\ UNCHANGED <<index, metadata, vector_file, metadata_file, built, builder>>

\* Most words of a text handed to extract_keywords.
MaxWords == 2
\* Largest max_keywords handed to extract_keywords with those texts.
MaxKeywords == 2

KeywordWords == {"The", "Quick", "brown", "fox", "jumps", "this", "with"}

QuickBrownFox == <<"The", SP, "quick", SP, "brown", SP, "fox", SP, "jumps">>

\* The calls of extract_keywords: every text of up to MaxWords words with
\* every max_keywords from -1, and the text above with max_keywords 5.
KeywordCalls ==
    ({join(words) : words \in UNION {[1..n -> KeywordWords] : n \in 0..MaxWords}}
     \X (-1..MaxKeywords))
    \cup {<<QuickBrownFox, 5>>}

\* A landing page of 600 words, each the given word, and three articles.
Page600(word) ==
    [client_name |-> "Page", url |-> "page",
     landing_page_content |-> [i \in 1..(2 * 600 - 1) |-> IF i % 2 = 1 THEN word ELSE SP],
     news_articles |-> <<Article(<<"rates">>, <<"bank">>), Article(<<"fund">>, <<>>),
                         Article(<<"quick">>, <<"bank">>)>>]

\* Longest client list handed to the first build.
MaxClients == 2

RecordLists ==
    UNION {[1..n -> {Acme, Beta, Gamma, Delta}] : n \in 0..MaxClients}
    \cup {<<Page600("a")>>, <<Page600("quick")>>}

\* build_vector_database(client_data), the first call on the instance.
BuildFresh(client_data) ==
    /\ ret.op = "none"
    /\ Build(client_data, "none")

TextNext ==
    \/ \E text \in ChunkTexts, max_length \in -1..MaxLength : ChunkText(text, max_length)
    \/ \E client_data \in RecordLists : BuildFresh(client_data)
    \/ \E rake \in RakeStates, call \in KeywordCalls : ExtractKeywords(rake, call[1], call[2])

TextSpec == Init /\ [][TextNext]_vars

\* ---------------------------------------------------------------- the batch functions
\* k of find_relevant_news when the caller gives none.
DefaultK == 10
\* max_keywords of extract_keywords when the caller gives none.
DefaultMaxKeywords == 5

\* processed_data[client_name] = entry: a dict keeps the place of a key it
\* already holds.
dict_set(processed, entry) ==
    IF \E i \in 1..Len(processed) : processed[i].client_name = entry.client_name
    THEN [i \in 1..Len(processed) |->
             IF processed[i].client_name = entry.client_name THEN entry ELSE processed[i]]
    ELSE Append(processed, entry)

\* One client of the loop of process_client_data_with_rag: keywords and
\* news are what extract_keywords and find_relevant_news gave for it.
process_client(processed, client, keywords, news) ==
    IF keywords.exc # "" THEN [exc |-> keywords.exc, processed |-> processed]
    ELSE IF news.exc # "" THEN [exc |-> news.exc, processed |-> processed]
    ELSE [exc |-> "",
          processed |-> dict_set(processed,
              [client_name |-> client.client_name,
               url |-> client.url,
               landing_page_content |-> client.landing_page_content,
               landing_page_keywords |-> keywords.keywords,
               relevant_news |-> news.results])]

\* The loop of process_client_data_with_rag over the clients of the file,
\* on an instance holding ix and md; an exception ends it. st is the
\* state after the clients before.
RECURSIVE process_loop(_, _, _, _, _)
process_loop(ix, md, rake, client_data, st) ==
    IF client_data = <<>> \/ st.exc # "" THEN st
    ELSE IF Head(client_data).landing_page_content = <<>>
    THEN process_loop(ix, md, rake, Tail(client_data), st)
    ELSE process_loop(ix, md, rake, Tail(client_data),
             process_client(st.processed, Head(client_data),
                 extract_keywords(rake, Head(client_data).landing_page_content,
                                  DefaultMaxKeywords),
                 find_relevant_news(ix, md, rake, Head(client_data).client_name,
                                    Head(client_data).landing_page_content, DefaultK)))

\* The index process_client_data_with_rag works with: load is what
\* load_index did on the new instance; when it returned False,
\* build_vector_database is called with the clients of the file.
load_or_build(load, vf, mf, client_data) ==
    IF load.exc # ""
    THEN [index |-> load.index, metadata |-> load.metadata,
          vector_file |-> vf, metadata_file |-> mf, exc |-> load.exc,
          loaded |-> FALSE, build |-> FALSE]
    ELSE IF load.returned
    THEN [index |-> load.index, metadata |-> load.metadata,
          vector_file |-> vf, metadata_file |-> mf, exc |-> "",
          loaded |-> TRUE, build |-> FALSE]
    ELSE build_vector_database(load.index, load.metadata, vf, mf, client_data, "none")
         @@ [loaded |-> FALSE, build |-> TRUE]

\* What process_client_data_with_rag leaves and returns: after is the
\* outcome of load_or_build, out that of the loop.
process_result(after, out) ==
    [index |-> after.index, metadata |-> after.metadata,
     vector_file |-> after.vector_file, metadata_file |-> after.metadata_file,
     loaded |-> after.loaded, build |-> after.build,
     build_exc |-> IF after.build THEN after.exc ELSE "",
     exc |-> out.exc, processed |-> out.processed]

\* process_client_data_with_rag from the loop on.
process_clients(after, rake, client_data) ==
    process_result(after,
        IF after.exc # "" THEN [exc |-> after.exc, processed |-> <<>>]
        ELSE process_loop(after.index, after.metadata, rake, client_data,
                          [exc |-> "", processed |-> <<>>]))

\* process_client_data_with_rag(client_data_file), the file holding
\* client_data and the snapshot files being vf and mf; rake is self.rake of
\* the RAGProcessor it constructs. loaded says load_index returned True,
\* build that build_vector_database was called.
process_client_data_with_rag(vf, mf, rake, client_data) ==
    process_clients(load_or_build(load_index(NoIndex, NoMetadata, vf, mf),
                                  vf, mf, client_data),
                    rake, client_data)

\* The client lists a client data file holds.
ClientFiles == {<<Acme>>, <<Delta>>, <<Gamma, Beta, Delta>>, <<Acme, Delta>>}

\* process_client_data_with_rag(client_data_file): the instance it
\* constructs replaces the one at work.
Process(rake, client_data) ==
    \E out \in {process_client_data_with_rag(vector_file, metadata_file, rake,
                                              client_data)} :
       /\ index' = out.index
       /\ metadata' = out.metadata
       /\ vector_file' = out.vector_file
       /\ metadata_file' = out.metadata_file
       /\ built' = (out.loaded \/ (out.build /\ out.build_exc = ""))
       /\ builder' = IF out.build /\ out.build_exc = ""
                     THEN [saved |-> TRUE, index |-> out.index, metadata |-> out.metadata]
                     ELSE [builder EXCEPT !.saved =
                              /\ builder.saved
                              /\ out.vector_file = vector_file
                              /\ out.metadata_file = metadata_file]
       /\ ret' = [op |-> "process_client_data_with_rag", rake |-> rake,
                  client_data |-> client_data, exc |-> out.exc, loaded |-> out.loaded,
                  build |-> out.build, processed |-> out.processed]

\* ---------------------------------------------------------------- the ad generator
\* A processed-data file: absent, or the entries process_client_data_with_rag
\* returned, in the order of the dict.
NoProcessedFile == [exists |-> FALSE, data |-> <<>>]

\* How chat.completions.create fares for one client: it answers with JSON,
\* with text that holds no JSON, or it raises.
ApiOutcomes == {"json", "text", "raises"}

\* top_news of _generate_mock_response when relevant_news is empty.
DefaultTopNews == [title |-> <<"Market", SP, "Developments">>, source |-> <<"Financial", SP, "News">>]

\* _generate_mock_response(client_data, relevant_news): the banner headline
\* takes the first word of the title of the first article.
generate_mock_response(client_data, relevant_news) ==
    LET top_news == IF relevant_news # <<>> THEN relevant_news[1] ELSE DefaultTopNews
    IN IF split(top_news.title) = <<>>
       THEN [exc |-> "IndexError", mock |-> TRUE, news_title |-> top_news.title]
       ELSE [exc |-> "", mock |-> TRUE, news_title |-> top_news.title]

\* generate_ad_creative(client_data, relevant_news) on a generator whose
\* self.client is set when api_key holds; outcome is how the API call fares.
generate_ad_creative(api_key, outcome, client_data, relevant_news) ==
    IF ~api_key THEN generate_mock_response(client_data, relevant_news)
    ELSE IF outcome = "json"
    THEN [exc |-> "", mock |-> FALSE, news_title |-> <<>>]
    ELSE generate_mock_response(client_data, relevant_news)

\* k of the semantic_search of enhance_with_rag.
EnhanceK == 8

\* enhance_with_rag(client_data); rag is self.rag_processor: set says it is
\* not None, index and metadata are what the RAGProcessor holds.
enhance_with_rag(rag, client_data) ==
    IF ~rag.set THEN [exc |-> "", results |-> client_data.relevant_news]
    ELSE LET search_query == join_strings(py_slice_to(client_data.landing_page_keywords, 3))
                             \o <<SP>> \o py_prefix(client_data.landing_page_content, 200)
         IN semantic_search(rag.index, rag.metadata, search_query, EnhanceK, "news_article")

\* The campaign generate_campaign_for_client returns, or the exception
\* that left it: relevant_news and primary_ads are what the search and
\* generate_ad_creative gave.
campaign_record(client_data, relevant_news, primary_ads) ==
    IF relevant_news.exc # "" THEN [exc |-> relevant_news.exc]
    ELSE IF primary_ads.exc # "" THEN [exc |-> primary_ads.exc]
    ELSE [exc |-> "",
          client_name |-> client_data.client_name,
          client_url |-> client_data.url,
          relevant_news_count |-> Len(relevant_news.results),
          top_keywords |-> py_slice_to(client_data.landing_page_keywords, 5),
          ad_creative |-> [mock |-> primary_ads.mock, news_title |-> primary_ads.news_title],
          news_sources |-> py_slice_to(relevant_news.results, 5)]

\* generate_campaign_for_client from generate_ad_creative on.
campaign_with_news(api_key, outcome, client_data, relevant_news) ==
    campaign_record(client_data, relevant_news,
        generate_ad_creative(api_key, outcome, client_data,
                             py_slice_to(relevant_news.results, 3)))

\* generate_campaign_for_client(client_data): the news are searched when
\* self.rag_processor is not None, and taken from client_data otherwise.
generate_campaign_for_client(rag, api_key, outcome, client_data) ==
    campaign_with_news(api_key, outcome, client_data,
        IF rag.set THEN enhance_with_rag(rag, client_data)
        ELSE [exc |-> "", results |-> client_data.relevant_news])

\* after_client without the try: the exception of the campaign is raised.
after_client_no_except(st, client_name, campaign) ==
    [exc |-> campaign.exc,
     campaigns |-> IF campaign.exc # "" THEN st.campaigns
                   ELSE Append(st.campaigns, campaign),
     attempts |-> Append(st.attempts, [client_name |-> client_name, exc |-> campaign.exc])]

\* The body of the loop of generate_complete_campaign: the campaign is
\* appended, or its exception is caught and printed. attempts lists the
\* clients the loop came to and the exception each one's campaign raised,
\* "" for none.
after_client(st, client_name, campaign) ==
    [exc |-> "",
     campaigns |-> IF campaign.exc # "" THEN st.campaigns
                   ELSE Append(st.campaigns, campaign),
     attempts |-> Append(st.attempts, [client_name |-> client_name, exc |-> campaign.exc])]

\* The loop of generate_complete_campaign over processed_data.items(); an
\* exception that is not caught leaves it.
RECURSIVE campaign_loop(_, _, _, _, _)
campaign_loop(rag, api_key, api, processed_data, st) ==
    IF st.exc # "" \/ Len(st.attempts) >= Len(processed_data) THEN st
    ELSE campaign_loop(rag, api_key, api, processed_data,
             after_client(st, processed_data[Len(st.attempts) + 1].client_name,
                 generate_campaign_for_client(rag, api_key, api[Len(st.attempts) + 1],
                                              processed_data[Len(st.attempts) + 1])))

\* What generate_complete_campaign leaves and returns: load is the outcome
\* of load_index in load_rag_processor, out that of the loop.
campaigns_result(load, out) ==
    [constructed |-> TRUE, index |-> load.index, metadata |-> load.metadata,
     loaded |-> load.returned, load_exc |-> load.exc, exc |-> out.exc,
     campaigns |-> out.campaigns, attempts |-> out.attempts]

\* generate_complete_campaign from load_rag_processor on: self.rag_processor
\* is the new RAGProcessor whatever load_index returned.
campaigns_after_load(load, file, api_key, api) ==
    campaigns_result(load,
        IF load.exc # "" THEN [exc |-> load.exc, campaigns |-> <<>>, attempts |-> <<>>]
        ELSE campaign_loop([set |-> TRUE, index |-> load.index, metadata |-> load.metadata],
                           api_key, api, file.data,
                           [exc |-> "", campaigns |-> <<>>, attempts |-> <<>>]))

\* generate_complete_campaign(processed_data_file) with the snapshot files
\* vf and mf on disk. constructed says a RAGProcessor was made, index and
\* metadata are what it holds, load_exc what load_index raised, loaded
\* what it returned.
generate_complete_campaign(vf, mf, file, api_key, api) ==
    IF ~file.exists
    THEN [constructed |-> FALSE, index |-> NoIndex, metadata |-> NoMetadata,
          loaded |-> FALSE, load_exc |-> "", exc |-> "", campaigns |-> <<>>,
          attempts |-> <<>>]
    ELSE campaigns_after_load(load_index(NoIndex, NoMetadata, vf, mf), file, api_key, api)

\* generate_complete_campaign(processed_data_file); api_key says the
\* environment holds an API key, api how the API call of each client fares.
GenerateCampaigns(file, api_key, api) ==
    \E out \in {generate_complete_campaign(vector_file, metadata_file, file,
                                            api_key, api)} :
       /\ index' = IF out.constructed THEN out.index ELSE index
       /\ metadata' = IF out.constructed THEN out.metadata ELSE metadata
       /\ built' = IF out.constructed THEN out.loaded ELSE built
       /\ ret' = [op |-> "generate_complete_campaign", file |-> file, api_key |-> api_key,
                  api |-> api,
                  loaded |-> out.loaded, load_exc |-> out.load_exc, exc |-> out.exc,
                  campaigns |-> out.campaigns, attempts |-> out.attempts]
       /\ UNCHANGED <<vector_file, metadata_file, builder>>

\* The processed-data files on disk: none, or what rag_processor.py wrote
\* for a client data file on a disk without snapshot.
ProcessedFiles ==
    {NoProcessedFile} \cup
    {[exists |-> TRUE,
      data |-> process_client_data_with_rag([file |-> NoFile, data |-> <<>>],
                                            [file |-> NoFile, data |-> pickle_dump(<<>>)],
                                            "ready", client_data).processed] :
        client_data \in ClientFiles}

\* How the API calls of n clients may fare: without a key none is made.
ApiCalls(api_key, n) ==
    IF api_key THEN [1..n -> ApiOutcomes] ELSE {[i \in 1..n |-> "not called"]}

\* RagSpec: the batch functions at work on one disk. rag_processor.py and
\* step 3 of the pipeline call process_client_data_with_rag, step 4 calls
\* generate_complete_campaign, and a build or a search may come between.
RagNext ==
    \/ \E client_data \in ClientFiles : Build(client_data, "none")
    \/ \E rake \in {"ready", "none"}, client_data \in ClientFiles : Process(rake, client_data)
    \/ \E client_name \in ClientNames, landing_page_content \in LandingPages,
          k \in {1, DefaultK} :
           FindRelevantNews("ready", client_name, landing_page_content, k)
    \/ \E file \in ProcessedFiles, api_key \in BOOLEAN :
           \E api \in ApiCalls(api_key, Len(file.data)) :
               GenerateCampaigns(file, api_key, api)

RagSpec == Init /\ [][RagNext]_vars

\* ---------------------------------------------------------------- the main pipeline
\* The names main_pipeline.py binds at module level: its imports and its
\* functions.
ModuleNames == {"sys", "json", "time", "Path", "install_requirements", "run_step",
                "check_input_files", "main"}

\* What parse_client_data makes of a sheet: no landing_page_content yet.
Parsed(client) ==
    [client_name |-> client.client_name, url |-> client.url,
     news_articles |-> client.news_articles]

\* Epsilon: a client whose landing page cannot be scraped, with one article.
Epsilon == [client_name |-> "Epsilon", url |-> "epsilon",
            landing_page_content |-> <<>>,
            news_articles |-> <<Article(<<"quick">>, <<"bank">>)>>]

\* The web: the clients whose pages it serves, by url.
Web == {Acme, Beta, Delta, Epsilon}

\* scrape_text_from_url(url): the text of the page, nothing when the
\* request fails.
scrape_text_from_url(url) ==
    IF \E page \in Web : page.url = url
    THEN (CHOOSE page \in Web : page.url = url).landing_page_content
    ELSE <<>>

\* Most clients parse_client_data returns.
MaxParsed == 3

\* The sheets of the workbook: each has a url and an article with a title.
Sheets == {Parsed(Acme), Parsed(Beta), Parsed(Epsilon),
           [Parsed(Delta) EXCEPT !.news_articles = Tail(Delta.news_articles)]}

\* What parse_client_data returns: one entry per sheet, no sheet twice.
ParsedLists ==
    {list \in UNION {[1..n -> Sheets] : n \in 0..MaxParsed} :
        \A i, j \in 1..Len(list) : list[i] = list[j] => i = j}

\* Step 2 of main: every client is given the text scraped from its url.
scrape_all(parsed_data) ==
    [i \in 1..Len(parsed_data) |->
        [landing_page_content |-> scrape_text_from_url(parsed_data[i].url)]
        @@ parsed_data[i]]

\* The end of main: the summary reports success when neither step 3 nor
\* step 4 failed under run_step. content is the client data step 2 saved,
\* step3 and step4 the outcomes of the two calls.
main_summary(content, step3, processed_file, step4) ==
    [steps |-> <<1, 2, 3, 4>>, exc |-> "", step1 |-> TRUE,
     step3 |-> step3.exc = "", step4 |-> step4.exc = "",
     summary |-> IF step3.exc = "" /\ step4.exc = "" THEN "success" ELSE "errors",
     parsed_data |-> content,
     rag_result |-> IF step3.exc = "" THEN step3.processed ELSE <<>>,
     step4_read |-> processed_file,
     campaigns |-> IF step4.exc = "" THEN step4.campaigns ELSE <<>>,
     index |-> IF step4.constructed THEN step4.index ELSE step3.index,
     metadata |-> IF step4.constructed THEN step4.metadata ELSE step3.metadata,
     built |-> IF step4.constructed THEN step4.loaded
               ELSE step3.loaded \/ (step3.build /\ step3.build_exc = ""),
     vector_file |-> step3.vector_file, metadata_file |-> step3.metadata_file,
     constructed |-> TRUE]

\* main() from step 4 on: run_step runs generate_complete_campaign on
\* data/processed_client_data_rag.json, which main does not write;
\* processed_file is that file as the run finds it.
main_from_step_4(content, step3, processed_file, api_key, outcome) ==
    main_summary(content, step3, processed_file,
        generate_complete_campaign(step3.vector_file, step3.metadata_file,
            processed_file, api_key,
            [i \in 1..Len(processed_file.data) |->
                IF api_key THEN outcome ELSE "not called"]))

\* main() from step 3 on: run_step runs process_client_data_with_rag on
\* data/client_data_with_content.json, which holds content.
main_from_step_3(vf, mf, processed_file, content, rake, api_key, outcome) ==
    main_from_step_4(content, process_client_data_with_rag(vf, mf, rake, content),
                     processed_file, api_key, outcome)

\* main() from step 2 on: the pages are scraped and
\* data/client_data_with_content.json is written.
main_from_step_2(vf, mf, processed_file, parsed_data, rake, api_key, outcome) ==
    main_from_step_3(vf, mf, processed_file, scrape_all(parsed_data), rake, api_key,
                     outcome)

\* main() that ends before step 2: returned after a message, or left by
\* the exception exc.
main_ends(steps, step1, exc, parsed_data, vf, mf) ==
    [steps |-> steps, exc |-> exc, step1 |-> step1, step3 |-> FALSE, step4 |-> FALSE,
     summary |-> "", parsed_data |-> parsed_data, rag_result |-> <<>>,
     step4_read |-> NoProcessedFile, campaigns |-> <<>>,
     index |-> NoIndex, metadata |-> NoMetadata, built |-> FALSE,
     vector_file |-> vf, metadata_file |-> mf, constructed |-> FALSE]

\* main(): xlsx and docx say the input files exist, imports_ok that the
\* four imports succeed, parse is what parse_client_data does: it raises
\* (exc) or returns parsed_data. After step 1 main calls os.makedirs, and
\* os is looked up among the names of the module.
main(vf, mf, processed_file, xlsx, docx, imports_ok, parse, rake, api_key, outcome) ==
    IF ~(xlsx /\ docx) THEN main_ends(<<>>, FALSE, "", <<>>, vf, mf)
    ELSE IF ~imports_ok THEN main_ends(<<>>, FALSE, "", <<>>, vf, mf)
    ELSE IF parse.exc # "" THEN main_ends(<<1>>, FALSE, "", <<>>, vf, mf)
    ELSE IF "os" \notin ModuleNames
    THEN main_ends(<<1>>, TRUE, "NameError", parse.parsed_data, vf, mf)
    ELSE main_from_step_2(vf, mf, processed_file, parse.parsed_data, rake, api_key, outcome)

\* What parse_client_data may do.
ParseOutcomes ==
    {[exc |-> "FileFormatError", parsed_data |-> <<>>]}
    \cup {[exc |-> "", parsed_data |-> list] : list \in ParsedLists}

\* main(): one run of the pipeline; processed_file is
\* data/processed_client_data_rag.json as the run finds it.
Main(processed_file, xlsx, docx, imports_ok, parse, rake, api_key, outcome) ==
    \E out \in {main(vector_file, metadata_file, processed_file, xlsx, docx,
                      imports_ok, parse, rake, api_key, outcome)} :
       /\ index' = IF out.constructed THEN out.index ELSE index
       /\ metadata' = IF out.constructed THEN out.metadata ELSE metadata
       /\ built' = IF out.constructed THEN out.built ELSE built
       /\ vector_file' = out.vector_file
       /\ metadata_file' = out.metadata_file
       /\ builder' = [builder EXCEPT !.saved =
                          /\ builder.saved
                          /\ out.vector_file = vector_file
                          /\ out.metadata_file = metadata_file]
       /\ ret' = [op |-> "main", xlsx |-> xlsx, docx |-> docx, imports_ok |-> imports_ok,
                  processed_file |-> processed_file, steps |-> out.steps,
                  exc |-> out.exc, step1 |-> out.step1, step3 |-> out.step3,
                  step4 |-> out.step4, summary |-> out.summary,
                  parsed_data |-> out.parsed_data, rag_result |-> out.rag_result,
                  step4_read |-> out.step4_read, campaigns |-> out.campaigns]

\* PipelineSpec: runs of main_pipeline.py, one after the other.
PipelineNext ==
    \E processed_file \in ProcessedFiles, xlsx \in BOOLEAN, docx \in BOOLEAN,
       imports_ok \in BOOLEAN, parse \in ParseOutcomes :
        Main(processed_file, xlsx, docx, imports_ok, parse, "ready", FALSE, "json")

PipelineSpec == Init /\ [][PipelineNext]_vars

\* ---------------------------------------------------------------- properties
\* The record passes the filter of semantic_search.
passes(rec, filter_type) == ~truthy(filter_type) \/ rec.type = filter_type

\* How many metadata records pass the filter.
Passing(md, filter_type) ==
    Cardinality({i \in 1..Len(md.recs) : passes(md.recs[i], filter_type)})

\* How many of the n highest-ranked rows of the index have a metadata record
\* that passes the filter.
PassingInTop(ix, md, query, n, filter_type) ==
    LET cands == index_search(ix, normalize_L2(get_embedding(query)), n)
    IN Cardinality({j \in 1..Len(cands) :
                       /\ cands[j].idx # -1
                       /\ cands[j].idx + 1 <= Len(md.recs)
                       /\ passes(md.recs[cands[j].idx + 1], filter_type)})

\* A search result without its similarity_score, as the metadata holds it.
Stored(result) == [f \in DOMAIN result \ {"similarity_score"} |-> result[f]]

Min(a, b) == IF a <= b THEN a ELSE b

\* C1 (as claimed): semantic_search raises the not-built error whenever no
\* build_vector_database or load_index call has completed successfully on
\* the instance, a failed build or load included.
C1_NotBuiltRaises ==
    (ret.op = "semantic_search" /\ ~built) => ret.exc = "ValueError"

\* C2 (as claimed): whenever the index is set, it holds as many vectors as
\* there are metadata records, and vector i is the one the text of record i
\* produced.
C2_IndexMatchesMetadata ==
    ~index.none =>
        /\ Len(index.xb) = Len(metadata.recs)
        /\ \A i \in 1..Len(index.xb) :
               index.xb[i] = normalize_L2(get_embedding(metadata.recs[i].content))

\* C3 (as claimed): a build_vector_database call that raises leaves index
\* and metadata exactly as they were before the call.
C3_BuildAtomic ==
    [][(ret'.op = "build_vector_database" /\ ret'.exc # "")
           => (index' = index /\ metadata' = metadata)]_vars

\* C4 (as claimed): a load_index call that does not load the snapshot
\* (a file missing or unreadable) leaves index and metadata unchanged.
C4_LoadAtomic ==
    [][(ret'.op = "load_index" /\ ~ret'.returned)
           => (index' = index /\ metadata' = metadata)]_vars

\* C5: when a snapshot file does not exist, load_index returns False
\* without raising and without reading a file, and a fresh instance is
\* still fresh, so every semantic_search on it raises the not-built error.
C5_LoadMissingFile ==
    /\ (ret.op = "load_index"
            /\ (~vector_file.file.exists \/ ~metadata_file.file.exists))
         => /\ ~ret.returned /\ ret.exc = "" /\ ret.read = {}
            /\ ret.fresh =>
                 \A query \in Queries, k \in 1..MaxK, filter_type \in FilterTypes :
                    semantic_search(index, metadata, query, k, filter_type).exc
                        = "ValueError"
    /\ (ret.op = "semantic_search" /\ index.none) => ret.exc = "ValueError"

\* A fresh instance has called load_index with only the vector file on disk.
C5_Witness ==
    /\ ret.op = "load_index" /\ ret.fresh
    /\ vector_file.file.exists /\ vector_file.file.readable
    /\ ~metadata_file.file.exists

\* C6: build_vector_database raises when the client list yields no text to
\* embed; it does not complete.
C6_EmptyBuildRaises ==
    (ret.op = "build_vector_database" /\ build_metadata(ret.client_data) = <<>>)
        => ret.exc # ""

\* A build from a non-empty client list that yields no text has raised.
C6_Witness ==
    /\ ret.op = "build_vector_database" /\ ret.client_data = <<Gamma>>
    /\ ret.exc = "IndexError"

\* C7: after a build that completes, index and metadata hold exactly the
\* records of that call's client list, whatever the instance held before;
\* and a search returns only records the metadata holds.
C7_BuildReplaces ==
    /\ (ret.op = "build_vector_database" /\ ret.exc = "")
         => /\ metadata.set /\ metadata.recs = build_metadata(ret.client_data)
            /\ index.xb = normalize_rows(build_embeddings(metadata.recs))
    /\ (ret.op = "semantic_search" /\ ret.exc = "")
         => \A j \in 1..Len(ret.results) :
               \E i \in 1..Len(metadata.recs) : metadata.recs[i] = Stored(ret.results[j])

\* A build has completed on an instance that had completed one before, with
\* another client list.
C7_Witness ==
    /\ ret.op = "build_vector_database" /\ ret.exc = "" /\ ret.was_built
    /\ ret.client_data = <<Gamma, Beta>>
    /\ Len(metadata.recs) = 1

\* C8: when a fresh instance calls load_index on the snapshot a completed
\* build saved, the call returns True and every semantic_search gives the
\* records, order and scores the building instance gives.
C8_RoundTrip ==
    (ret.op = "load_index" /\ ret.fresh /\ builder.saved)
        => /\ ret.returned
           /\ \A query \in Queries, k \in 1..MaxK, filter_type \in FilterTypes :
                 semantic_search(index, metadata, query, k, filter_type)
                     = semantic_search(builder.index, builder.metadata,
                                       query, k, filter_type)

\* A fresh instance has loaded a saved snapshot of several records.
C8_Witness ==
    /\ ret.op = "load_index" /\ ret.fresh /\ builder.saved /\ ret.returned
    /\ Len(index.xb) > 1
    /\ semantic_search(index, metadata, <<"rates">>, MaxK, None).results # <<>>

\* C9 (as claimed): semantic_search returns exactly k results whenever the
\* index holds at least k records that pass the filter.
C9_ExactlyKWhenEnough ==
    (ret.op = "semantic_search" /\ ~index.none /\ metadata.set
        /\ Len(index.xb) = Len(metadata.recs)
        /\ Passing(metadata, ret.filter_type) >= ret.k)
        => (ret.exc = "" /\ Len(ret.results) = ret.k)

\* C9 (amended): a semantic_search that returns gives exactly k results when
\* at least k of the 2k highest-ranked records pass the filter, and
\* otherwise exactly the passing ones among those 2k.
C9_ExactlyKWithinTop2k ==
    (ret.op = "semantic_search" /\ ret.exc = "" /\ ~index.none)
        => Len(ret.results)
             = Min(ret.k, PassingInTop(index, metadata, ret.query, 2 * ret.k,
                                       ret.filter_type))

\* A filtered search over an index of both kinds has returned exactly k
\* results.
C9_Witness ==
    /\ ret.op = "semantic_search" /\ ret.exc = ""
    /\ ret.filter_type = "news_article" /\ ret.k = 1
    /\ Len(index.xb) = 3 /\ Len(metadata.recs) = 3
    /\ Len(ret.results) = 1

\* C10: a semantic_search that returns gives at most k results, and no more
\* than there are records passing the filter.
C10_AtMostK ==
    (ret.op = "semantic_search" /\ ret.exc = "")
        => /\ Len(ret.results) <= ret.k
           /\ Len(ret.results) <= Passing(metadata, ret.filter_type)

\* A search has returned fewer than k results, all there are of the kind.
C10_Witness ==
    /\ ret.op = "semantic_search" /\ ret.exc = ""
    /\ ret.filter_type = "news_article" /\ ret.k = MaxK
    /\ Len(ret.results) = 1
    /\ Passing(metadata, ret.filter_type) = 1

\* C11 (as claimed): with any filter_type other than None, the type of every
\* result semantic_search returns equals the filter_type.
C11_ResultsMatchFilter ==
    (ret.op = "semantic_search" /\ ret.exc = "" /\ ret.filter_type # None) =>
        \A j \in 1..Len(ret.results) : ret.results[j].type = ret.filter_type

\* The results that pass the filter, in their order.
Restrict(results, filter_type) == SelectSeq(results, LAMBDA r : passes(r, filter_type))

\* a can be had from b by deleting elements of b.
RECURSIVE IsSubseq(_, _)
IsSubseq(a, b) ==
    IF a = <<>> THEN TRUE
    ELSE IF b = <<>> THEN FALSE
    ELSE IF Head(a) = Head(b) THEN IsSubseq(Tail(a), Tail(b))
    ELSE IsSubseq(a, Tail(b))

\* C12 (as claimed): the result of the unfiltered semantic_search(query, k),
\* restricted to the records of a kind, holds every result of
\* semantic_search(query, k, filter_type=kind), in the same relative order.
C12_UnfilteredKIsSuperset ==
    (ret.op = "semantic_search" /\ ret.exc = "" /\ truthy(ret.filter_type)) =>
        LET unfiltered == semantic_search(index, metadata, ret.query, ret.k, None)
        IN unfiltered.exc = "" =>
               IsSubseq(ret.results, Restrict(unfiltered.results, ret.filter_type))

\* C12 (amended): the result of the unfiltered semantic_search(query, 2 * k),
\* restricted to the records of a kind, holds every result of
\* semantic_search(query, k, filter_type=kind), in the same relative order,
\* whenever both calls return.
C12_Unfiltered2KIsSuperset ==
    (ret.op = "semantic_search" /\ ret.exc = "" /\ truthy(ret.filter_type)) =>
        LET unfiltered == semantic_search(index, metadata, ret.query, 2 * ret.k, None)
        IN unfiltered.exc = "" =>
               IsSubseq(ret.results, Restrict(unfiltered.results, ret.filter_type))

\* A filtered search for one landing_page record has returned one, while the
\* best record of the index is a news_article.
C12_Witness ==
    /\ ret.op = "semantic_search" /\ ret.exc = ""
    /\ ret.filter_type = "landing_page" /\ ret.k = 1
    /\ Len(ret.results) = 1
    /\ LET unfiltered == semantic_search(index, metadata, ret.query, 1, None)
       IN /\ unfiltered.exc = ""
          /\ Len(unfiltered.results) = 1
          /\ unfiltered.results[1].type = "news_article"

\* C13: the list semantic_search returns, and the list find_relevant_news
\* returns, is ordered best first, its similarity_score never increasing
\* along the list, with or without a filter.
C13_BestFirst ==
    (ret.op \in {"semantic_search", "find_relevant_news"} /\ ret.exc = "") =>
        \A i, j \in 1..Len(ret.results) :
            i < j => ret.results[i].similarity_score >= ret.results[j].similarity_score

\* A search has returned two results of different scores.
C13_Witness ==
    /\ ret.op = "semantic_search" /\ ret.exc = ""
    /\ Len(ret.results) = 2
    /\ ret.results[1].similarity_score > ret.results[2].similarity_score

\* C14: the chunks of _chunk_text, joined by single spaces and split again,
\* are exactly the words of the text in their order; no chunk is empty, and
\* a text without a word gives no chunk.
C14_ChunksPartitionWords ==
    ret.op = "_chunk_text" =>
        /\ split(join_strings(ret.chunks)) = split(ret.text)
        /\ \A i \in 1..Len(ret.chunks) : split(ret.chunks[i]) # <<>>
        /\ split(ret.text) = <<>> => ret.chunks = <<>>

\* A text of three words has been cut into more than one chunk.
C14_Witness ==
    /\ ret.op = "_chunk_text"
    /\ Len(split(ret.text)) = 3
    /\ Len(ret.chunks) = 2

\* C15: for max_length >= 1 a chunk is at most max_length characters long,
\* unless it is a single word longer than max_length.
C15_ChunkWithinBudget ==
    (ret.op = "_chunk_text" /\ ret.max_length >= 1) =>
        \A i \in 1..Len(ret.chunks) :
            \/ strlen(ret.chunks[i]) <= ret.max_length
            \/ /\ Len(ret.chunks[i]) = 1
               /\ Len(ret.chunks[i][1]) > ret.max_length

\* A word longer than max_length is a chunk of its own beside a chunk of
\* several words within the budget.
C15_Witness ==
    /\ ret.op = "_chunk_text" /\ ret.max_length = 3
    /\ ret.chunks = << <<"dddd">>, <<"a", SP, "a">> >>

\* How many records of the metadata have the type.
CountType(md, type) == Cardinality({i \in 1..Len(md.recs) : md.recs[i].type = type})

\* The client list is one client with a landing page of 600 words and three
\* news articles.
Is600WordsAnd3Articles(client_data) ==
    /\ Len(client_data) = 1
    /\ Len(split(client_data[1].landing_page_content)) = 600
    /\ Len(client_data[1].news_articles) = 3

\* C16 (as claimed): a build from one client with a landing page of 600 words
\* and three news articles makes exactly 2 landing_page records and 3
\* news_article records, 5 in all.
C16_TwoLandingThreeNews ==
    (ret.op = "build_vector_database" /\ ret.exc = ""
     /\ Is600WordsAnd3Articles(ret.client_data)) =>
        /\ CountType(metadata, "landing_page") = 2
        /\ CountType(metadata, "news_article") = 3
        /\ Len(metadata.recs) = 5

\* C16 (amended): a build from one client with a landing page of 600 words
\* and three news articles makes at least 3 landing_page records, exactly 3
\* when every word is a single character, and exactly 3 news_article
\* records, so at least 6 in all.
C16_ThreeOrMoreLandingThreeNews ==
    (ret.op = "build_vector_database" /\ ret.exc = ""
     /\ Is600WordsAnd3Articles(ret.client_data)) =>
        /\ CountType(metadata, "landing_page") >= 3
        /\ (\A w \in 1..600 : Len(split(ret.client_data[1].landing_page_content)[w]) = 1)
               => CountType(metadata, "landing_page") = 3
        /\ CountType(metadata, "news_article") = 3
        /\ Len(metadata.recs) >= 6

\* The page of 600 one-character words has been built into 3 landing_page
\* and 3 news_article records.
C16_Witness ==
    /\ ret.op = "build_vector_database" /\ ret.exc = ""
    /\ Is600WordsAnd3Articles(ret.client_data)
    /\ Len(ret.client_data[1].landing_page_content[1]) = 1
    /\ CountType(metadata, "landing_page") = 3
    /\ CountType(metadata, "news_article") = 3

\* The chunks of a client's landing page, none when it has no content.
ChunksOf(client) ==
    IF client.landing_page_content = <<>> THEN <<>>
    ELSE chunk_text(client.landing_page_content, ChunkBudget)

\* How many chunks the clients before position c have.
RECURSIVE ChunksBefore(_, _)
ChunksBefore(client_data, c) ==
    IF c <= 1 THEN 0
    ELSE ChunksBefore(client_data, c - 1) + Len(ChunksOf(client_data[c - 1]))

\* How many articles the clients before position c have.
RECURSIVE ArticlesBefore(_, _)
ArticlesBefore(client_data, c) ==
    IF c <= 1 THEN 0
    ELSE ArticlesBefore(client_data, c - 1) + Len(client_data[c - 1].news_articles)

\* C17: after a successful build the metadata holds, first, for each client
\* in turn one landing_page record per chunk of its content with chunk_id 0,
\* 1, 2, ..., then for each client in turn one news_article record per
\* article in input order, its vector that of title, space, source; and
\* nothing else.
C17_RecordsPerChunkAndArticle ==
    (ret.op = "build_vector_database" /\ ret.exc = "") =>
        LET cd == ret.client_data
            recs == metadata.recs
            nl == ChunksBefore(cd, Len(cd) + 1)
            nn == ArticlesBefore(cd, Len(cd) + 1)
        IN /\ Len(recs) = nl + nn
           /\ Len(index.xb) = nl + nn
           /\ \A c \in 1..Len(cd) : \A i \in 1..Len(ChunksOf(cd[c])) :
                  LET r == recs[ChunksBefore(cd, c) + i] IN
                  /\ r.type = "landing_page"
                  /\ r.client_name = cd[c].client_name
                  /\ r.chunk_id = i - 1
                  /\ r.content = ChunksOf(cd[c])[i]
           /\ \A c \in 1..Len(cd) : \A a \in 1..Len(cd[c].news_articles) :
                  LET r == recs[nl + ArticlesBefore(cd, c) + a]
                      article == cd[c].news_articles[a]
                      text == article.title \o <<SP>> \o article.source
                  IN /\ r.type = "news_article"
                     /\ r.client_name = cd[c].client_name
                     /\ r.title = article.title
                     /\ r.source = article.source
                     /\ index.xb[nl + ArticlesBefore(cd, c) + a]
                            = normalize_L2(get_embedding(text))

\* Two clients, each with landing-page chunks and articles, have been built
\* into 3 landing_page records followed by 3 news_article records.
C17_Witness ==
    /\ ret.op = "build_vector_database" /\ ret.exc = ""
    /\ ret.client_data = <<Acme, Delta>>
    /\ Len(metadata.recs) = 6
    /\ metadata.recs[3].type = "landing_page"
    /\ metadata.recs[4].type = "news_article"

\* C18 (as claimed): a client or an article whose text is empty or missing
\* gets no record in a build, which goes on with the other items: after a
\* successful build no record of the metadata has a text without a word.
C18_EmptyTextExcluded ==
    (ret.op = "build_vector_database" /\ ret.exc = "") =>
        \A i \in 1..Len(metadata.recs) : split(metadata.recs[i].content) # <<>>

\* The words of the lowercased, whitespace-split text that are longer than 3
\* characters and not in the stopword set of the fallback without RAKE.
Survivors(text) ==
    SelectSeq(lower_split(text),
              LAMBDA word : Len(word) > 3 /\ word \notin stop_words_no_rake)

\* C19: with self.rake None, extract_keywords(text, N) returns the first N
\* survivors of the text in their order, each as one keyword; for "The quick
\* brown fox jumps" and N = 5 that is quick, brown, jumps.
C19_FallbackFirstN ==
    (ret.op = "extract_keywords" /\ ret.rake = "none" /\ ret.max_keywords >= 0) =>
        /\ ret.exc = ""
        /\ Len(ret.keywords) = Min(ret.max_keywords, Len(Survivors(ret.text)))
        /\ \A i \in 1..Len(ret.keywords) : ret.keywords[i] = <<Survivors(ret.text)[i]>>
        /\ (ret.text = QuickBrownFox /\ ret.max_keywords = 5)
               => ret.keywords = << <<"quick">>, <<"brown">>, <<"jumps">> >>

\* The call of the example has returned without RAKE.
C19_Witness ==
    /\ ret.op = "extract_keywords" /\ ret.rake = "none"
    /\ ret.text = QuickBrownFox /\ ret.max_keywords = 5
    /\ Len(ret.keywords) = 3

\* Every keyword is one lowercased word of the text, longer than 3
\* characters: what both fallbacks produce.
FromFallback(keywords, text) ==
    \A i \in 1..Len(keywords) :
        /\ Len(keywords[i]) = 1
        /\ Len(keywords[i][1]) > 3
        /\ \E w \in 1..Len(lower_split(text)) : lower_split(text)[w] = keywords[i][1]

\* C20 (as claimed): extract_keywords never raises, and with self.rake None
\* or RAKE raising in the call it returns at most max_keywords keywords, all
\* from the fallback, for any max_keywords.
C20_NeverRaisesAtMostN ==
    ret.op = "extract_keywords" =>
        /\ ret.exc = ""
        /\ ret.rake \in {"none", "failing"} =>
               /\ Len(ret.keywords) <= ret.max_keywords
               /\ FromFallback(ret.keywords, ret.text)

\* C20 (amended): extract_keywords never raises, and with self.rake None or
\* RAKE raising in the call it returns keywords all from the fallback, at
\* most max_keywords of them when max_keywords >= 0.
C20_NeverRaisesAtMostNonNegativeN ==
    ret.op = "extract_keywords" =>
        /\ ret.exc = ""
        /\ ret.rake \in {"none", "failing"} =>
               /\ ret.max_keywords >= 0 => Len(ret.keywords) <= ret.max_keywords
               /\ FromFallback(ret.keywords, ret.text)

\* RAKE has raised in a call for one keyword of a text with two candidate
\* words, and the call has returned the first.
C20_Witness ==
    /\ ret.op = "extract_keywords" /\ ret.rake = "failing" /\ ret.exc = ""
    /\ ret.max_keywords = 1
    /\ Len(SelectSeq(lower_split(ret.text), LAMBDA word : Len(word) > 3)) = 2
    /\ Len(ret.keywords) = 1

\* C22: every vector of the index has unit norm, and every score a search
\* returns is the inner product of the unit-norm query vector with the
\* unit-norm vector of the returned record: a cosine similarity.
C22_UnitNormAndCosine ==
    /\ ~index.none =>
           \A i \in 1..Len(index.xb) : dot(index.xb[i], index.xb[i]) = Unit * Unit
    /\ (ret.op \in {"semantic_search", "find_relevant_news"} /\ ret.exc = "") =>
           LET q == normalize_L2(get_embedding(ret.query)) IN
           /\ dot(q, q) = Unit * Unit
           /\ \A j \in 1..Len(ret.results) :
                  /\ ret.results[j].similarity_score <= Unit * Unit
                  /\ ret.results[j].similarity_score >= 0 - Unit * Unit
                  /\ \E i \in 1..Min(Len(index.xb), Len(metadata.recs)) :
                         /\ metadata.recs[i] = Stored(ret.results[j])
                         /\ ret.results[j].similarity_score = dot(q, index.xb[i])

\* A search over vectors built from texts of several words has returned a
\* record at an angle to the query.
C22_Witness ==
    /\ ret.op = "semantic_search" /\ ret.exc = ""
    /\ Len(index.xb) = 3
    /\ Len(ret.results) >= 1
    /\ ret.results[1].similarity_score > 0
    /\ ret.results[1].similarity_score < Unit * Unit

\* The records of the kind among the n highest-ranked rows of the index, in
\* rank order, each with its score.
KindInTop(ix, md, query, n, filter_type) ==
    LET cands == index_search(ix, normalize_L2(get_embedding(query)), n)
        ok == SelectSeq(cands, LAMBDA c : /\ c.idx # -1
                                          /\ c.idx + 1 <= Len(md.recs)
                                          /\ md.recs[c.idx + 1].type = filter_type)
    IN [j \in 1..Len(ok) |-> md.recs[ok[j].idx + 1] @@ [similarity_score |-> ok[j].score]]

\* C23: a filtered semantic_search that returns gives exactly the records of
\* the filter kind among the 2k highest-ranked rows, in rank order, cut to k;
\* a record ranked below 2k is never returned.
C23_KindAmongTop2k ==
    (ret.op = "semantic_search" /\ ret.exc = "" /\ truthy(ret.filter_type)) =>
        LET top == KindInTop(index, metadata, ret.query, 2 * ret.k, ret.filter_type)
        IN ret.results = SubSeq(top, 1, Min(ret.k, Len(top)))

\* A filtered search has returned nothing although the index holds a record
\* of the kind, ranked below 2k.
C23_Witness ==
    /\ ret.op = "semantic_search" /\ ret.exc = ""
    /\ ret.filter_type = "news_article" /\ ret.k = 1
    /\ ret.results = <<>>
    /\ Len(index.xb) = 3 /\ Len(metadata.recs) = 3
    /\ metadata.recs[3].type = "news_article"

\* C26 (as claimed): the fallback taken when self.rake is None returns the
\* list the fallback taken when RAKE raises returns, for the same text and
\* max_keywords.
C26_FallbacksAgree ==
    (ret.op = "extract_keywords" /\ ret.rake = "none") =>
        ret.keywords = extract_keywords("failing", ret.text, ret.max_keywords).keywords

\* C27 (as claimed): every chunk but the last could not have taken the next
\* word: its length, plus 1, plus the length of the first word of the next
\* chunk exceeds max_length; the first chunk included.
C27_GreedyMaximal ==
    ret.op = "_chunk_text" =>
        \A i \in 1..(Len(ret.chunks) - 1) :
            strlen(ret.chunks[i]) + 1 + Len(ret.chunks[i + 1][1]) > ret.max_length

\* C27 (amended): every chunk but the first and the last could not have
\* taken the next word; the first chunk is closed one character early: its
\* length, plus 2, plus the length of the next word exceeds max_length.
C27_GreedyMaximalButFirst ==
    ret.op = "_chunk_text" =>
        \A i \in 1..(Len(ret.chunks) - 1) :
            strlen(ret.chunks[i]) + (IF i = 1 THEN 2 ELSE 1) + Len(ret.chunks[i + 1][1])
                > ret.max_length

\* A text has been cut into three chunks, the first of which had room for
\* the next word and the second of which had not.
C27_Witness ==
    /\ ret.op = "_chunk_text"
    /\ Len(ret.chunks) = 3
    /\ strlen(ret.chunks[1]) + 1 + Len(ret.chunks[2][1]) = ret.max_length
    /\ strlen(ret.chunks[2]) + 1 + Len(ret.chunks[3][1]) > ret.max_length
    /\ strlen(ret.chunks[2]) <= ret.max_length

\* C28: find_relevant_news does not look at client_name: on the instance and
\* with the landing page and k of the call, every other client name gives
\* the outcome the call had, and every record returned is a news_article,
\* whoever owns it.
C28_ClientNameIgnored ==
    ret.op = "find_relevant_news" =>
        /\ \A other \in ClientNames \cup {Beta.client_name, ""} :
               LET out == find_relevant_news(index, metadata, ret.rake, other,
                                             ret.landing_page_content, ret.k)
               IN out.exc = ret.exc /\ out.results = ret.results
        /\ \A j \in 1..Len(ret.results) : ret.results[j].type = "news_article"

\* A call for one client returns an article of another.
C28_Witness ==
    /\ ret.op = "find_relevant_news"
    /\ ret.exc = ""
    /\ \E j \in 1..Len(ret.results) : ret.results[j].client_name # ret.client_name

\* The news_article records a build makes of the clients of a file.
NewsOf(client_data) == {all_news(client_data)[i] : i \in 1..Len(all_news(client_data))}

\* C24 (as claimed): when process_client_data_with_rag(file) returns, the
\* index that answered find_relevant_news holds exactly the records made of
\* the clients of the file, and every relevant_news item is an article of
\* the file, whatever snapshot earlier builds left on disk.
C24_IndexOfGivenFile ==
    (ret.op = "process_client_data_with_rag" /\ ret.exc = "") =>
        /\ metadata.recs = build_metadata(ret.client_data)
        /\ \A i \in 1..Len(ret.processed) :
               \A j \in 1..Len(ret.processed[i].relevant_news) :
                   Stored(ret.processed[i].relevant_news[j]) \in NewsOf(ret.client_data)

\* The client names of a list of entries, in order.
Names(entries) == [i \in 1..Len(entries) |-> entries[i].client_name]

C25_CampaignPerClientFromStoredNews ==
    (/\ ret.op = "generate_complete_campaign"
     /\ ret.file.exists
     /\ ret.load_exc = ""
     /\ ~ret.loaded) =>
        /\ Names(ret.campaigns) = Names(ret.file.data)
        /\ \A i \in 1..Len(ret.campaigns) :
               /\ ret.campaigns[i].relevant_news_count = Len(ret.file.data[i].relevant_news)
               /\ ret.campaigns[i].news_sources = py_slice_to(ret.file.data[i].relevant_news, 5)

\* C29 (as claimed): a run of main whose input files exist and whose step 1
\* succeeds goes through steps 2, 3 and 4 in that order and reaches the
\* final summary, which reports success exactly when neither step 3 nor
\* step 4 failed.
C29_AllStepsThenSummary ==
    (ret.op = "main" /\ ret.xlsx /\ ret.docx /\ ret.step1) =>
        /\ ret.exc = ""
        /\ ret.steps = <<1, 2, 3, 4>>
        /\ ret.summary \in {"success", "errors"}
        /\ ret.summary = "success" <=> (ret.step3 /\ ret.step4)

====
